---- MODULE Spec2Model ----
(***************************************************************************)
(* Model of the ledger engine in src/src/account_manager.rs                *)
(* (AccountManager).  The state is the two hash maps the struct owns,      *)
(* `accounts` (client -> ClientAccount) and `transactions` (tx id ->       *)
(* Transaction).  Every process_* method is an operator that maps the two  *)
(* maps and the input record to the two maps after the call and the        *)
(* result the call returns; process_tx dispatches on the type tag.         *)
(*                                                                         *)
(* Decimal amounts are modelled as integers (a fixed scale): the code only *)
(* adds, subtracts and negates them, and the model's balances stay far     *)
(* from the 96-bit mantissa of rust_decimal, where + and - are exact.      *)
(* The result strings are the error messages of the source; "Ok" is        *)
(* Ok(()).                                                                 *)
(***************************************************************************)
EXTENDS Integers, FiniteSets, TLC

VARIABLES accounts, transactions, lastTx, lastResult, pre, disputedTxs,
          chargedBack, chargedOff, cleanInputs, steps

vars ==
  <<accounts, transactions, lastTx, lastResult, pre, disputedTxs,
    chargedBack, chargedOff, cleanInputs, steps>>

(* ------------------------------ bounds --------------------------------- *)

MaxSteps ==
  4

MaxAmount ==
  2

Clients ==
  {1, 2}

TxIds ==
  {1, 2}

Amounts ==
  1..MaxAmount

(* Option<Decimal>: None is the empty set, Some(a) the singleton {a}.      *)
None ==
  {}

Some(a) ==
  {a}

Unwrap(opt) ==
  CHOOSE a \in opt : TRUE

OptionAmount ==
  {None} \cup {Some(a) : a \in Amounts}

Kinds ==
  {"deposit", "withdraw", "dispute", "resolve", "chargeback", "refund"}

(* The records process_tx can be handed: crate::Transaction has the fields *)
(* type, client, tx, amount (an Option) and is_disputed.  A deposit or a   *)
(* withdraw is stored whole in the history, so all its fields vary.  Of a  *)
(* dispute, resolve, chargeback or unknown record the code reads only      *)
(* type, client and tx: its amount and is_disputed are fixed to the values *)
(* the tests give them (None, false).                                      *)
Transaction ==
  [type : {"deposit", "withdraw"}, client : Clients, tx : TxIds,
   amount : OptionAmount, is_disputed : BOOLEAN]
  \cup
  [type : Kinds \ {"deposit", "withdraw"}, client : Clients, tx : TxIds,
   amount : {None}, is_disputed : {FALSE}]

(* --------------------------- the hash maps ----------------------------- *)

EmptyMap ==
  [k \in {} |-> None]

Insert(map, key, value) ==
  [k \in DOMAIN map \cup {key} |-> IF k = key THEN value ELSE map[k]]

Outcome(accs, txs, res) ==
  [accounts |-> accs, transactions |-> txs, result |-> res]

(* ----------------------------- operations ------------------------------ *)

(* process_deposit with the history entry made before the amount is        *)
(* looked at: a deposit without an amount is rejected but stays recorded.  *)
process_deposit_RecordsFirst(accs, txs, tx) ==
  IF tx.tx \in DOMAIN txs THEN Outcome(accs, txs, "Duplicate")
  ELSE IF tx.amount = None
  THEN Outcome(accs, Insert(txs, tx.tx, tx), "Amount Required")
  ELSE
    LET amount == Unwrap(tx.amount)
        txs2 == Insert(txs, tx.tx, tx)
    IN  IF tx.client \in DOMAIN accs
        THEN LET account == accs[tx.client]
                 available == account.available + amount
             IN  Outcome(
                   [accs EXCEPT ![tx.client] =
                      [account EXCEPT !.available = available,
                                      !.total = available - account.held]],
                   txs2, "Ok")
        ELSE Outcome(
               Insert(accs, tx.client,
                      [available |-> amount, client |-> tx.client, held |-> 0,
                       locked |-> FALSE, total |-> amount]),
               txs2, "Ok")

(* process_deposit that rebuilds the account of an existing client the way *)
(* it builds a new one, with locked: false.                                *)
process_deposit_ResetsLocked(accs, txs, tx) ==
  IF tx.amount = None THEN Outcome(accs, txs, "Amount Required")
  ELSE IF tx.tx \in DOMAIN txs THEN Outcome(accs, txs, "Duplicate")
  ELSE
    LET amount == Unwrap(tx.amount)
        txs2 == Insert(txs, tx.tx, tx)
    IN  IF tx.client \in DOMAIN accs
        THEN LET account == accs[tx.client]
                 available == account.available + amount
             IN  Outcome(
                   [accs EXCEPT ![tx.client] =
                      [available |-> available, client |-> tx.client,
                       held |-> account.held, locked |-> FALSE,
                       total |-> available - account.held]],
                   txs2, "Ok")
        ELSE Outcome(
               Insert(accs, tx.client,
                      [available |-> amount, client |-> tx.client, held |-> 0,
                       locked |-> FALSE, total |-> amount]),
               txs2, "Ok")

(* process_deposit that checks the history for a duplicate but does not    *)
(* record the deposit in it.                                               *)
process_deposit_NotRecorded(accs, txs, tx) ==
  IF tx.amount = None THEN Outcome(accs, txs, "Amount Required")
  ELSE IF tx.tx \in DOMAIN txs THEN Outcome(accs, txs, "Duplicate")
  ELSE
    LET amount == Unwrap(tx.amount)
    IN  IF tx.client \in DOMAIN accs
        THEN LET account == accs[tx.client]
                 available == account.available + amount
             IN  Outcome(
                   [accs EXCEPT ![tx.client] =
                      [account EXCEPT !.available = available,
                                      !.total = available - account.held]],
                   txs, "Ok")
        ELSE Outcome(
               Insert(accs, tx.client,
                      [available |-> amount, client |-> tx.client, held |-> 0,
                       locked |-> FALSE, total |-> amount]),
               txs, "Ok")

process_deposit(accs, txs, tx) ==
  IF tx.amount = None THEN Outcome(accs, txs, "Amount Required")
  ELSE IF tx.tx \in DOMAIN txs THEN Outcome(accs, txs, "Duplicate")
  ELSE
    LET amount == Unwrap(tx.amount)
        txs2 == Insert(txs, tx.tx, tx)
    IN  IF tx.client \in DOMAIN accs
        THEN LET account == accs[tx.client]
                 available == account.available + amount
             IN  Outcome(
                   [accs EXCEPT ![tx.client] =
                      [account EXCEPT !.available = available,
                                      !.total = available - account.held]],
                   txs2, "Ok")
        ELSE Outcome(
               Insert(accs, tx.client,
                      [available |-> amount, client |-> tx.client, held |-> 0,
                       locked |-> FALSE, total |-> amount]),
               txs2, "Ok")

(* process_withdraw with HashMap::insert in place of the entry match: a    *)
(* known tx id overwrites the stored record and the withdraw is applied.   *)
process_withdraw_Overwrites(accs, txs, tx) ==
  IF tx.amount = None THEN Outcome(accs, txs, "Amount Required")
  ELSE
    LET amount == Unwrap(tx.amount)
        txs2 == Insert(txs, tx.tx, tx)
    IN  IF tx.client \in DOMAIN accs
        THEN LET account == accs[tx.client]
                 available == account.available - amount
             IN  Outcome(
                   [accs EXCEPT ![tx.client] =
                      [account EXCEPT !.available = available,
                                      !.total = available - account.held]],
                   txs2, "Ok")
        ELSE Outcome(
               Insert(accs, tx.client,
                      [available |-> 0 - amount, client |-> tx.client,
                       held |-> 0, locked |-> FALSE, total |-> 0 - amount]),
               txs2, "Ok")

(* process_withdraw with a funds check: a withdraw of more than the        *)
(* available balance (or from no account) is rejected.                     *)
process_withdraw_ChecksFunds(accs, txs, tx) ==
  IF tx.amount = None THEN Outcome(accs, txs, "Amount Required")
  ELSE IF tx.tx \in DOMAIN txs THEN Outcome(accs, txs, "Duplicate")
  ELSE
    LET amount == Unwrap(tx.amount)
        txs2 == Insert(txs, tx.tx, tx)
    IN  IF tx.client \in DOMAIN accs
        THEN LET account == accs[tx.client]
                 available == account.available - amount
             IN  IF available < 0
                 THEN Outcome(accs, txs, "Insufficient Funds")
                 ELSE Outcome(
                   [accs EXCEPT ![tx.client] =
                      [account EXCEPT !.available = available,
                                      !.total = available - account.held]],
                   txs2, "Ok")
        ELSE Outcome(accs, txs, "Insufficient Funds")

(* process_withdraw that refuses a locked account.                         *)
process_withdraw_RejectsLocked(accs, txs, tx) ==
  IF tx.amount = None THEN Outcome(accs, txs, "Amount Required")
  ELSE IF tx.tx \in DOMAIN txs THEN Outcome(accs, txs, "Duplicate")
  ELSE IF tx.client \in DOMAIN accs /\ accs[tx.client].locked
  THEN Outcome(accs, txs, "Account Locked")
  ELSE
    LET amount == Unwrap(tx.amount)
        txs2 == Insert(txs, tx.tx, tx)
    IN  IF tx.client \in DOMAIN accs
        THEN LET account == accs[tx.client]
                 available == account.available - amount
             IN  Outcome(
                   [accs EXCEPT ![tx.client] =
                      [account EXCEPT !.available = available,
                                      !.total = available - account.held]],
                   txs2, "Ok")
        ELSE Outcome(
               Insert(accs, tx.client,
                      [available |-> 0 - amount, client |-> tx.client,
                       held |-> 0, locked |-> FALSE, total |-> 0 - amount]),
               txs2, "Ok")

(* process_withdraw with the history entry made before the amount is       *)
(* looked at: a withdraw without an amount is rejected but stays recorded. *)
process_withdraw_RecordsFirst(accs, txs, tx) ==
  IF tx.tx \in DOMAIN txs THEN Outcome(accs, txs, "Duplicate")
  ELSE IF tx.amount = None
  THEN Outcome(accs, Insert(txs, tx.tx, tx), "Amount Required")
  ELSE
    LET amount == Unwrap(tx.amount)
        txs2 == Insert(txs, tx.tx, tx)
    IN  IF tx.client \in DOMAIN accs
        THEN LET account == accs[tx.client]
                 available == account.available - amount
             IN  Outcome(
                   [accs EXCEPT ![tx.client] =
                      [account EXCEPT !.available = available,
                                      !.total = available - account.held]],
                   txs2, "Ok")
        ELSE Outcome(
               Insert(accs, tx.client,
                      [available |-> 0 - amount, client |-> tx.client,
                       held |-> 0, locked |-> FALSE, total |-> 0 - amount]),
               txs2, "Ok")

process_withdraw(accs, txs, tx) ==
  IF tx.amount = None THEN Outcome(accs, txs, "Amount Required")
  ELSE IF tx.tx \in DOMAIN txs THEN Outcome(accs, txs, "Duplicate")
  ELSE
    LET amount == Unwrap(tx.amount)
        txs2 == Insert(txs, tx.tx, tx)
    IN  IF tx.client \in DOMAIN accs
        THEN LET account == accs[tx.client]
                 available == account.available - amount
             IN  Outcome(
                   [accs EXCEPT ![tx.client] =
                      [account EXCEPT !.available = available,
                                      !.total = available - account.held]],
                   txs2, "Ok")
        ELSE Outcome(
               Insert(accs, tx.client,
                      [available |-> 0 - amount, client |-> tx.client,
                       held |-> 0, locked |-> FALSE, total |-> 0 - amount]),
               txs2, "Ok")

(* process_dispute that recomputes total as the deposit, withdraw and      *)
(* chargeback handlers do.                                                 *)
process_dispute_RecomputesTotal(accs, txs, tx) ==
  IF tx.client \notin DOMAIN accs
  THEN Outcome(accs, txs, "No Associated Client Account Found")
  ELSE IF tx.tx \notin DOMAIN txs
  THEN Outcome(accs, txs,
               "No Associated Transaction to-be-disputed could be Found")
  ELSE
    LET disputed_tx == txs[tx.tx]
        account == accs[tx.client]
    IN  IF disputed_tx.type # "deposit"
        THEN Outcome(accs, txs, "Only a Deposit can be disputed")
        ELSE IF disputed_tx.amount = None
        THEN Outcome(accs, txs, "Amount Required")
        ELSE
          LET amount == Unwrap(disputed_tx.amount)
              available == account.available - amount
              held == account.held + amount
          IN  Outcome(
                [accs EXCEPT ![tx.client] =
                   [account EXCEPT !.available = available,
                                   !.held = held,
                                   !.total = available - held]],
                [txs EXCEPT ![tx.tx] =
                   [disputed_tx EXCEPT !.is_disputed = TRUE]],
                "Ok")

(* process_dispute without the check of the referenced record's type.      *)
process_dispute_AnyKind(accs, txs, tx) ==
  IF tx.client \notin DOMAIN accs
  THEN Outcome(accs, txs, "No Associated Client Account Found")
  ELSE IF tx.tx \notin DOMAIN txs
  THEN Outcome(accs, txs,
               "No Associated Transaction to-be-disputed could be Found")
  ELSE
    LET disputed_tx == txs[tx.tx]
        account == accs[tx.client]
    IN  IF disputed_tx.amount = None
        THEN Outcome(accs, txs, "Amount Required")
        ELSE
          LET amount == Unwrap(disputed_tx.amount)
          IN  Outcome(
                [accs EXCEPT ![tx.client] =
                   [account EXCEPT !.available = account.available - amount,
                                   !.held = account.held + amount]],
                [txs EXCEPT ![tx.tx] =
                   [disputed_tx EXCEPT !.is_disputed = TRUE]],
                "Ok")

(* process_dispute that writes the dispute record over the history entry   *)
(* (e.insert(tx.clone())) in place of setting the entry's flag.            *)
process_dispute_StoresDispute(accs, txs, tx) ==
  IF tx.client \notin DOMAIN accs
  THEN Outcome(accs, txs, "No Associated Client Account Found")
  ELSE IF tx.tx \notin DOMAIN txs
  THEN Outcome(accs, txs,
               "No Associated Transaction to-be-disputed could be Found")
  ELSE
    LET disputed_tx == txs[tx.tx]
        account == accs[tx.client]
    IN  IF disputed_tx.type # "deposit"
        THEN Outcome(accs, txs, "Only a Deposit can be disputed")
        ELSE IF disputed_tx.amount = None
        THEN Outcome(accs, txs, "Amount Required")
        ELSE
          LET amount == Unwrap(disputed_tx.amount)
          IN  Outcome(
                [accs EXCEPT ![tx.client] =
                   [account EXCEPT !.available = account.available - amount,
                                   !.held = account.held + amount]],
                [txs EXCEPT ![tx.tx] = [tx EXCEPT !.is_disputed = TRUE]],
                "Ok")

(* process_dispute that sets is_disputed as soon as the entry is found,    *)
(* before the referenced record's type is checked.                         *)
process_dispute_FlagsFirst(accs, txs, tx) ==
  IF tx.client \notin DOMAIN accs
  THEN Outcome(accs, txs, "No Associated Client Account Found")
  ELSE IF tx.tx \notin DOMAIN txs
  THEN Outcome(accs, txs,
               "No Associated Transaction to-be-disputed could be Found")
  ELSE
    LET disputed_tx == txs[tx.tx]
        account == accs[tx.client]
        flagged == [txs EXCEPT ![tx.tx] =
                      [disputed_tx EXCEPT !.is_disputed = TRUE]]
    IN  IF disputed_tx.type # "deposit"
        THEN Outcome(accs, flagged, "Only a Deposit can be disputed")
        ELSE IF disputed_tx.amount = None
        THEN Outcome(accs, flagged, "Amount Required")
        ELSE
          LET amount == Unwrap(disputed_tx.amount)
          IN  Outcome(
                [accs EXCEPT ![tx.client] =
                   [account EXCEPT !.available = account.available - amount,
                                   !.held = account.held + amount]],
                flagged, "Ok")

process_dispute(accs, txs, tx) ==
  IF tx.client \notin DOMAIN accs
  THEN Outcome(accs, txs, "No Associated Client Account Found")
  ELSE IF tx.tx \notin DOMAIN txs
  THEN Outcome(accs, txs,
               "No Associated Transaction to-be-disputed could be Found")
  ELSE
    LET disputed_tx == txs[tx.tx]
        account == accs[tx.client]
    IN  IF disputed_tx.type # "deposit"
        THEN Outcome(accs, txs, "Only a Deposit can be disputed")
        ELSE IF disputed_tx.amount = None
        THEN Outcome(accs, txs, "Amount Required")
        ELSE
          LET amount == Unwrap(disputed_tx.amount)
          IN  Outcome(
                [accs EXCEPT ![tx.client] =
                   [account EXCEPT !.available = account.available - amount,
                                   !.held = account.held + amount]],
                [txs EXCEPT ![tx.tx] =
                   [disputed_tx EXCEPT !.is_disputed = TRUE]],
                "Ok")

(* process_resolve that takes the account with entry(..).or_insert_with:   *)
(* a client without an account gets an empty one before the history is     *)
(* looked at.                                                              *)
process_resolve_CreatesAccount(accs, txs, tx) ==
  LET accs1 ==
        IF tx.client \in DOMAIN accs THEN accs
        ELSE Insert(accs, tx.client,
                    [available |-> 0, client |-> tx.client, held |-> 0,
                     locked |-> FALSE, total |-> 0])
  IN  IF tx.tx \notin DOMAIN txs
      THEN Outcome(accs1, txs,
                   "No Associated Transaction to-be-resolved could be Found")
      ELSE
        LET disputed_tx == txs[tx.tx]
            account == accs1[tx.client]
        IN  IF ~disputed_tx.is_disputed
            THEN Outcome(accs1, txs, "Transaction is not disputed")
            ELSE IF disputed_tx.amount = None
            THEN Outcome(accs1, txs, "Amount Required")
            ELSE
              LET amount == Unwrap(disputed_tx.amount)
              IN  Outcome(
                    [accs1 EXCEPT ![tx.client] =
                       [account EXCEPT
                          !.available = account.available + amount,
                          !.held = account.held - amount]],
                    [txs EXCEPT ![tx.tx] =
                       [disputed_tx EXCEPT !.is_disputed = FALSE]],
                    "Ok")

(* process_resolve that gives the amount back to available but leaves it   *)
(* in held.                                                                *)
process_resolve_KeepsHeld(accs, txs, tx) ==
  IF tx.client \notin DOMAIN accs
  THEN Outcome(accs, txs, "No Associated Client Account Found")
  ELSE IF tx.tx \notin DOMAIN txs
  THEN Outcome(accs, txs,
               "No Associated Transaction to-be-resolved could be Found")
  ELSE
    LET disputed_tx == txs[tx.tx]
        account == accs[tx.client]
    IN  IF ~disputed_tx.is_disputed
        THEN Outcome(accs, txs, "Transaction is not disputed")
        ELSE IF disputed_tx.amount = None
        THEN Outcome(accs, txs, "Amount Required")
        ELSE
          LET amount == Unwrap(disputed_tx.amount)
          IN  Outcome(
                [accs EXCEPT ![tx.client] =
                   [account EXCEPT !.available = account.available + amount]],
                [txs EXCEPT ![tx.tx] =
                   [disputed_tx EXCEPT !.is_disputed = FALSE]],
                "Ok")

process_resolve(accs, txs, tx) ==
  IF tx.client \notin DOMAIN accs
  THEN Outcome(accs, txs, "No Associated Client Account Found")
  ELSE IF tx.tx \notin DOMAIN txs
  THEN Outcome(accs, txs,
               "No Associated Transaction to-be-resolved could be Found")
  ELSE
    LET disputed_tx == txs[tx.tx]
        account == accs[tx.client]
    IN  IF ~disputed_tx.is_disputed
        THEN Outcome(accs, txs, "Transaction is not disputed")
        ELSE IF disputed_tx.amount = None
        THEN Outcome(accs, txs, "Amount Required")
        ELSE
          LET amount == Unwrap(disputed_tx.amount)
          IN  Outcome(
                [accs EXCEPT ![tx.client] =
                   [account EXCEPT !.available = account.available + amount,
                                   !.held = account.held - amount]],
                [txs EXCEPT ![tx.tx] =
                   [disputed_tx EXCEPT !.is_disputed = FALSE]],
                "Ok")

(* process_chargeback that clears is_disputed as process_resolve does.     *)
process_chargeback_ClearsDisputed(accs, txs, tx) ==
  IF tx.client \notin DOMAIN accs
  THEN Outcome(accs, txs, "No Associated Client Account Found")
  ELSE IF tx.tx \notin DOMAIN txs
  THEN Outcome(accs, txs,
               "No Associated Transaction to-be-chargedback could be Found")
  ELSE
    LET disputed_tx == txs[tx.tx]
        account == accs[tx.client]
    IN  IF ~disputed_tx.is_disputed
        THEN Outcome(accs, txs, "Transaction is not disputed")
        ELSE IF disputed_tx.amount = None
        THEN Outcome(accs, txs, "Amount Required")
        ELSE
          LET amount == Unwrap(disputed_tx.amount)
              held == account.held - amount
          IN  Outcome(
                [accs EXCEPT ![tx.client] =
                   [account EXCEPT !.held = held,
                                   !.total = account.available - held,
                                   !.locked = TRUE]],
                [txs EXCEPT ![tx.tx] =
                   [disputed_tx EXCEPT !.is_disputed = FALSE]],
                "Ok")

(* process_chargeback without the check of is_disputed.                    *)
process_chargeback_Unchecked(accs, txs, tx) ==
  IF tx.client \notin DOMAIN accs
  THEN Outcome(accs, txs, "No Associated Client Account Found")
  ELSE IF tx.tx \notin DOMAIN txs
  THEN Outcome(accs, txs,
               "No Associated Transaction to-be-chargedback could be Found")
  ELSE
    LET disputed_tx == txs[tx.tx]
        account == accs[tx.client]
    IN  IF disputed_tx.amount = None
        THEN Outcome(accs, txs, "Amount Required")
        ELSE
          LET amount == Unwrap(disputed_tx.amount)
              held == account.held - amount
          IN  Outcome(
                [accs EXCEPT ![tx.client] =
                   [account EXCEPT !.held = held,
                                   !.total = account.available - held,
                                   !.locked = TRUE]],
                txs, "Ok")

process_chargeback(accs, txs, tx) ==
  IF tx.client \notin DOMAIN accs
  THEN Outcome(accs, txs, "No Associated Client Account Found")
  ELSE IF tx.tx \notin DOMAIN txs
  THEN Outcome(accs, txs,
               "No Associated Transaction to-be-chargedback could be Found")
  ELSE
    LET disputed_tx == txs[tx.tx]
        account == accs[tx.client]
    IN  IF ~disputed_tx.is_disputed
        THEN Outcome(accs, txs, "Transaction is not disputed")
        ELSE IF disputed_tx.amount = None
        THEN Outcome(accs, txs, "Amount Required")
        ELSE
          LET amount == Unwrap(disputed_tx.amount)
              held == account.held - amount
          IN  Outcome(
                [accs EXCEPT ![tx.client] =
                   [account EXCEPT !.held = held,
                                   !.total = account.available - held,
                                   !.locked = TRUE]],
                txs, "Ok")

process_tx(accs, txs, tx) ==
  CASE tx.type = "deposit" -> process_deposit(accs, txs, tx)
    [] tx.type = "withdraw" -> process_withdraw(accs, txs, tx)
    [] tx.type = "dispute" -> process_dispute(accs, txs, tx)
    [] tx.type = "resolve" -> process_resolve(accs, txs, tx)
    [] tx.type = "chargeback" -> process_chargeback(accs, txs, tx)
    [] OTHER -> Outcome(accs, txs, "Unknown Tx Type")

(* ---------------------------- state machine ---------------------------- *)

(* AccountManager::new(): both maps empty.  lastTx and lastResult are the  *)
(* record and the result of the latest call, pre the two maps as they were *)
(* when that call started.  disputedTxs are the tx ids a dispute succeeded *)
(* on so far, chargedBack those among them a later chargeback succeeded on *)
(* (pre.chargedBack: before the latest call).  chargedOff[c] is the sum of *)
(* the stored amounts of the records that the successful chargebacks sent  *)
(* for client c referred to.  cleanInputs says that every                  *)
(* record handed in so far had is_disputed = false, as every record of the *)
(* tests has.                                                              *)
NoTx ==
  [type |-> "new", client |-> 0, tx |-> 0, amount |-> None,
   is_disputed |-> FALSE]

Init ==
  /\ accounts = EmptyMap
  /\ transactions = EmptyMap
  /\ lastTx = NoTx
  /\ lastResult = "New"
  /\ pre = [accounts |-> EmptyMap, transactions |-> EmptyMap,
            chargedBack |-> {}]
  /\ disputedTxs = {}
  /\ chargedBack = {}
  /\ chargedOff = [c \in Clients |-> 0]
  /\ cleanInputs = TRUE
  /\ steps = 0

(* One call of process_tx by the single caller. *)
Apply(tx) ==
  /\ steps < MaxSteps
  /\ LET out == process_tx(accounts, transactions, tx)
     IN  /\ accounts' = out.accounts
         /\ transactions' = out.transactions
         /\ lastResult' = out.result
         /\ disputedTxs' =
              IF tx.type = "dispute" /\ out.result = "Ok"
              THEN disputedTxs \cup {tx.tx} ELSE disputedTxs
         /\ chargedBack' =
              IF /\ tx.type = "chargeback"
                 /\ out.result = "Ok"
                 /\ tx.tx \in disputedTxs
              THEN chargedBack \cup {tx.tx} ELSE chargedBack
         /\ chargedOff' =
              IF tx.type = "chargeback" /\ out.result = "Ok"
              THEN [chargedOff EXCEPT ![tx.client] =
                      @ + Unwrap(transactions[tx.tx].amount)]
              ELSE chargedOff
  /\ cleanInputs' = (cleanInputs /\ ~tx.is_disputed)
  /\ lastTx' = tx
  /\ pre' = [accounts |-> accounts, transactions |-> transactions,
             chargedBack |-> chargedBack]
  /\ steps' = steps + 1

Deposit ==
  \E tx \in Transaction : tx.type = "deposit" /\ Apply(tx)

Withdraw ==
  \E tx \in Transaction : tx.type = "withdraw" /\ Apply(tx)

Dispute ==
  \E tx \in Transaction : tx.type = "dispute" /\ Apply(tx)

Resolve ==
  \E tx \in Transaction : tx.type = "resolve" /\ Apply(tx)

Chargeback ==
  \E tx \in Transaction : tx.type = "chargeback" /\ Apply(tx)

UnknownType ==
  \E tx \in Transaction :
    tx.type \notin {"deposit", "withdraw", "dispute", "resolve", "chargeback"}
    /\ Apply(tx)

Next ==
  \/ Deposit
  \/ Withdraw
  \/ Dispute
  \/ Resolve
  \/ Chargeback
  \/ UnknownType

Spec ==
  Init /\ [][Next]_vars

(* ------------------------------ properties ----------------------------- *)

Called ==
  lastResult # "New"

Accepted ==
  lastResult = "Ok"

Rejected ==
  Called /\ ~Accepted

(* The history record the latest call referred to, as it was stored when   *)
(* the call started.                                                       *)
Referenced ==
  pre.transactions[lastTx.tx]

(* C1: after every call of process_tx, every account in the ledger has     *)
(* total = available + held (stated for the runs whose records all arrive  *)
(* with is_disputed = false).                                              *)
C1_TotalIsAvailablePlusHeld ==
  cleanInputs =>
  \A c \in DOMAIN accounts :
    accounts[c].total = accounts[c].available + accounts[c].held

(* C2: whenever process_tx returns an error, both maps are exactly what    *)
(* they were before the call: no account and no history record is created  *)
(* or changed.                                                             *)
C2_RejectionLeavesStateUnchanged ==
  Rejected =>
    /\ accounts = pre.accounts
    /\ transactions = pre.transactions

(* A rejected record whose client has an account and whose tx id is in the *)
(* history: there was state the call could have changed.                   *)
C2_Witness ==
  /\ Rejected
  /\ lastTx.type = "resolve"
  /\ lastTx.client \in DOMAIN pre.accounts
  /\ lastTx.tx \in DOMAIN pre.transactions
  /\ lastResult = "Transaction is not disputed"

(* C3: a deposit or withdraw with an amount whose tx id is already in the  *)
(* history returns Duplicate, changes no account, creates none and leaves  *)
(* the stored record as it was, whichever client or kind that record has.  *)
C3_DuplicateIsRejected ==
  ( /\ lastTx.type \in {"deposit", "withdraw"}
    /\ lastTx.amount # None
    /\ lastTx.tx \in DOMAIN pre.transactions )
  =>
    /\ lastResult = "Duplicate"
    /\ accounts = pre.accounts
    /\ transactions = pre.transactions

(* A duplicate withdraw whose stored record is a deposit of another client *)
(* with another amount, sent for a client that has no account yet.         *)
C3_Witness ==
  /\ lastTx.type = "withdraw"
  /\ lastTx.amount # None
  /\ lastTx.tx \in DOMAIN pre.transactions
  /\ Referenced.type = "deposit"
  /\ Referenced.client # lastTx.client
  /\ Referenced.amount # lastTx.amount
  /\ lastTx.client \notin DOMAIN pre.accounts
  /\ lastResult = "Duplicate"

(* C4: a successful dispute of a deposit that was not disputed, followed   *)
(* at once by a successful resolve of the same tx id, returns the account  *)
(* of the deposit's client to its available, held and total of before the  *)
(* dispute and the record's is_disputed to false.  (In the state between   *)
(* the two calls, pre holds the maps of before the dispute.)               *)
C4_DisputeResolveRoundTrip ==
  [][ ( /\ lastTx.type = "dispute"
        /\ Accepted
        /\ ~Referenced.is_disputed
        /\ cleanInputs'
        /\ lastTx'.type = "resolve"
        /\ lastTx'.tx = lastTx.tx
        /\ lastResult' = "Ok" )
      =>
        LET owner == Referenced.client
        IN  /\ accounts'[owner].available = pre.accounts[owner].available
            /\ accounts'[owner].held = pre.accounts[owner].held
            /\ accounts'[owner].total = pre.accounts[owner].total
            /\ ~transactions'[lastTx.tx].is_disputed ]_vars

(* C5: once a deposit has been disputed and then charged back, every later *)
(* resolve and every later chargeback on its tx id is rejected and changes *)
(* no balance.                                                             *)
C5_ChargebackIsPermanent ==
  ( /\ cleanInputs
    /\ lastTx.type \in {"resolve", "chargeback"}
    /\ lastTx.tx \in pre.chargedBack )
  =>
    /\ Rejected
    /\ accounts = pre.accounts

(* C6: a successful chargeback on a disputed record with stored amount A   *)
(* decreases held of the account it is applied to (the account of the      *)
(* chargeback record's client) by exactly A, leaves its available          *)
(* unchanged, sets its locked to true and leaves the record's is_disputed  *)
(* true.                                                                   *)
C6_ChargebackEffect ==
  (lastTx.type = "chargeback" /\ Accepted)
  =>
    LET c == lastTx.client
        A == Unwrap(Referenced.amount)
    IN  /\ Referenced.is_disputed
        /\ accounts[c].held = pre.accounts[c].held - A
        /\ accounts[c].available = pre.accounts[c].available
        /\ accounts[c].locked
        /\ transactions[lastTx.tx].is_disputed

(* A chargeback of a deposit of 2 on an account that was not locked.       *)
C6_Witness ==
  /\ lastTx.type = "chargeback"
  /\ Accepted
  /\ Referenced.amount = Some(2)
  /\ ~pre.accounts[lastTx.client].locked
  /\ pre.accounts[lastTx.client].available # 0

(* C7: a successful dispute of a deposit with stored amount A decreases    *)
(* available of the account it is applied to (the account of the dispute   *)
(* record's client) by exactly A, increases its held by exactly A, leaves  *)
(* its total and locked unchanged and sets the record's is_disputed.       *)
C7_DisputeEffect ==
  (lastTx.type = "dispute" /\ Accepted)
  =>
    LET c == lastTx.client
        A == Unwrap(Referenced.amount)
    IN  /\ Referenced.type = "deposit"
        /\ accounts[c].available = pre.accounts[c].available - A
        /\ accounts[c].held = pre.accounts[c].held + A
        /\ accounts[c].total = pre.accounts[c].total
        /\ accounts[c].locked = pre.accounts[c].locked
        /\ transactions[lastTx.tx].is_disputed

(* A dispute of a deposit of 2 that was not disputed, on a locked account. *)
C7_Witness ==
  /\ lastTx.type = "dispute"
  /\ Accepted
  /\ Referenced.amount = Some(2)
  /\ ~Referenced.is_disputed
  /\ pre.accounts[lastTx.client].locked

(* C8: a dispute, resolve or chargeback changes no account other than the  *)
(* account of the client stored in the referenced history record.          *)
C8_OnlyOwnerAccountChanges ==
  ( /\ cleanInputs
    /\ lastTx.type \in {"dispute", "resolve", "chargeback"}
    /\ lastTx.tx \in DOMAIN pre.transactions )
  =>
    \A c \in DOMAIN accounts :
      (c \notin DOMAIN pre.accounts \/ accounts[c] # pre.accounts[c])
        => c = Referenced.client

(* C9: a locked account stays locked over every call, and an account's     *)
(* locked goes from false (or from no account) to true only in a           *)
(* successful chargeback.                                                  *)
C9_LockedIsPermanent ==
  /\ \A c \in DOMAIN pre.accounts :
       pre.accounts[c].locked => (c \in DOMAIN accounts /\ accounts[c].locked)
  /\ \A c \in DOMAIN accounts :
       ( /\ accounts[c].locked
         /\ ~(c \in DOMAIN pre.accounts /\ pre.accounts[c].locked) )
       => (lastTx.type = "chargeback" /\ Accepted)

(* A deposit accepted on an account that already held funds and was        *)
(* locked.                                                                 *)
C9_Witness ==
  /\ lastTx.type = "deposit"
  /\ Accepted
  /\ lastTx.client \in DOMAIN pre.accounts
  /\ pre.accounts[lastTx.client].locked
  /\ accounts[lastTx.client].locked

(* C10 as stated: a dispute that references a history record whose kind is *)
(* not deposit is rejected with "Only a Deposit can be disputed", and the  *)
(* accounts and the record are unchanged.                                  *)
C10_DisputeOfWithdrawAsStated ==
  ( /\ lastTx.type = "dispute"
    /\ lastTx.tx \in DOMAIN pre.transactions
    /\ Referenced.type # "deposit" )
  =>
    /\ lastResult = "Only a Deposit can be disputed"
    /\ accounts = pre.accounts
    /\ transactions = pre.transactions

(* C10 amended: such a dispute is rejected, with "Only a Deposit can be    *)
(* disputed" when the dispute record's client has an account and with "No  *)
(* Associated Client Account Found" when it has none; in both cases the    *)
(* accounts and the record (its is_disputed included) are unchanged.       *)
C10_DisputeOfWithdrawRejected ==
  ( /\ lastTx.type = "dispute"
    /\ lastTx.tx \in DOMAIN pre.transactions
    /\ Referenced.type # "deposit" )
  =>
    /\ lastResult =
         IF lastTx.client \in DOMAIN pre.accounts
         THEN "Only a Deposit can be disputed"
         ELSE "No Associated Client Account Found"
    /\ accounts = pre.accounts
    /\ transactions = pre.transactions

(* A dispute of a stored withdraw by a client that has an account.         *)
C10_Witness ==
  /\ lastTx.type = "dispute"
  /\ lastTx.tx \in DOMAIN pre.transactions
  /\ Referenced.type = "withdraw"
  /\ ~Referenced.is_disputed
  /\ lastTx.client \in DOMAIN pre.accounts
  /\ lastResult = "Only a Deposit can be disputed"

(* C11: a dispute, resolve or chargeback whose client has no account or    *)
(* whose tx id is not in the history is rejected, and the key sets of both *)
(* maps are the same after the call as before it.                          *)
C11_MissingClientOrTxRejected ==
  ( /\ lastTx.type \in {"dispute", "resolve", "chargeback"}
    /\ \/ lastTx.client \notin DOMAIN pre.accounts
       \/ lastTx.tx \notin DOMAIN pre.transactions )
  =>
    /\ Rejected
    /\ DOMAIN accounts = DOMAIN pre.accounts
    /\ DOMAIN transactions = DOMAIN pre.transactions

(* A resolve by a client without an account, of a tx id that is in the     *)
(* history and disputed, while another client has an account.              *)
C11_Witness ==
  /\ lastTx.type = "resolve"
  /\ lastTx.client \notin DOMAIN pre.accounts
  /\ lastTx.tx \in DOMAIN pre.transactions
  /\ Referenced.is_disputed
  /\ DOMAIN pre.accounts # {}
  /\ lastResult = "No Associated Client Account Found"

(* C12 as stated: a resolve or chargeback that references a history record *)
(* whose is_disputed is false is rejected with "Transaction is not         *)
(* disputed", and no account changes.                                      *)
C12_NotDisputedAsStated ==
  ( /\ cleanInputs
    /\ lastTx.type \in {"resolve", "chargeback"}
    /\ lastTx.tx \in DOMAIN pre.transactions
    /\ ~Referenced.is_disputed )
  =>
    /\ lastResult = "Transaction is not disputed"
    /\ accounts = pre.accounts

(* C12 amended: such a resolve or chargeback is rejected, with             *)
(* "Transaction is not disputed" when the record's client has an account   *)
(* and with "No Associated Client Account Found" when it has none; in both *)
(* cases no account and no history record changes.                         *)
C12_NotDisputedRejected ==
  ( /\ lastTx.type \in {"resolve", "chargeback"}
    /\ lastTx.tx \in DOMAIN pre.transactions
    /\ ~Referenced.is_disputed )
  =>
    /\ lastResult =
         IF lastTx.client \in DOMAIN pre.accounts
         THEN "Transaction is not disputed"
         ELSE "No Associated Client Account Found"
    /\ accounts = pre.accounts
    /\ transactions = pre.transactions

(* A chargeback of a deposit that is not disputed, by the client that made *)
(* the deposit.                                                            *)
C12_Witness ==
  /\ lastTx.type = "chargeback"
  /\ lastTx.tx \in DOMAIN pre.transactions
  /\ Referenced.type = "deposit"
  /\ ~Referenced.is_disputed
  /\ Referenced.client = lastTx.client
  /\ lastResult = "Transaction is not disputed"

(* C13: a withdraw with an amount and a tx id that is not in the history   *)
(* is accepted whatever the balance: on an existing account it subtracts   *)
(* exactly the amount from available (which may go below zero) and leaves  *)
(* held unchanged; for a client without an account it creates one with     *)
(* available = -amount, held = 0 and locked = false.                       *)
C13_WithdrawNeverRejected ==
  ( /\ lastTx.type = "withdraw"
    /\ lastTx.amount # None
    /\ lastTx.tx \notin DOMAIN pre.transactions )
  =>
    LET c == lastTx.client
        amount == Unwrap(lastTx.amount)
    IN  /\ Accepted
        /\ c \in DOMAIN accounts
        /\ IF c \in DOMAIN pre.accounts
           THEN /\ accounts[c].available = pre.accounts[c].available - amount
                /\ accounts[c].held = pre.accounts[c].held
           ELSE /\ accounts[c].available = 0 - amount
                /\ accounts[c].held = 0
                /\ accounts[c].locked = FALSE

(* A withdraw of 2 accepted on an existing account whose available was     *)
(* below 2 and is negative afterwards.                                     *)
C13_Witness ==
  /\ lastTx.type = "withdraw"
  /\ lastTx.amount = Some(2)
  /\ Accepted
  /\ lastTx.client \in DOMAIN pre.accounts
  /\ pre.accounts[lastTx.client].available < 2
  /\ accounts[lastTx.client].available < 0

(* What C14 says of the accounts after an accepted deposit: the client's   *)
(* available grows by exactly the amount (from available = held = 0 and    *)
(* locked = false when the client had no account), its held and locked are *)
(* unchanged, and every other client's account is unchanged.               *)
DepositAccountEffect ==
  LET c == lastTx.client
      amount == Unwrap(lastTx.amount)
  IN  /\ DOMAIN accounts = DOMAIN pre.accounts \cup {c}
      /\ IF c \in DOMAIN pre.accounts
         THEN /\ accounts[c].available = pre.accounts[c].available + amount
              /\ accounts[c].held = pre.accounts[c].held
              /\ accounts[c].locked = pre.accounts[c].locked
         ELSE /\ accounts[c].available = amount
              /\ accounts[c].held = 0
              /\ accounts[c].locked = FALSE
      /\ \A k \in DOMAIN pre.accounts \ {c} : accounts[k] = pre.accounts[k]

(* C14 as stated: an accepted deposit has the account effect above and is  *)
(* stored in the history with is_disputed = false.                         *)
C14_DepositEffectAsStated ==
  (lastTx.type = "deposit" /\ Accepted)
  =>
    /\ DepositAccountEffect
    /\ lastTx.tx \in DOMAIN transactions
    /\ ~transactions[lastTx.tx].is_disputed

(* C14 amended: an accepted deposit has the account effect above and is    *)
(* stored in the history as it was given, so with is_disputed = false when *)
(* the record arrives with is_disputed = false.                            *)
C14_DepositEffect ==
  (lastTx.type = "deposit" /\ Accepted)
  =>
    /\ DepositAccountEffect
    /\ lastTx.tx \notin DOMAIN pre.transactions
    /\ lastTx.tx \in DOMAIN transactions
    /\ transactions[lastTx.tx] = lastTx
    /\ (~lastTx.is_disputed => ~transactions[lastTx.tx].is_disputed)

(* A deposit of 2 that arrives undisputed, accepted for a client without   *)
(* an account while another client's account holds funds under dispute.    *)
C14_Witness ==
  /\ lastTx.type = "deposit"
  /\ Accepted
  /\ lastTx.amount = Some(2)
  /\ ~lastTx.is_disputed
  /\ lastTx.client \notin DOMAIN pre.accounts
  /\ \E k \in DOMAIN pre.accounts : pre.accounts[k].held # 0

(* C15: a tx id that is in the history stays in it over every call, with   *)
(* the same client, kind, tx id and amount; of a stored record only        *)
(* is_disputed ever changes.                                               *)
C15_HistoryIsAppendOnly ==
  \A t \in DOMAIN pre.transactions :
    /\ t \in DOMAIN transactions
    /\ transactions[t].client = pre.transactions[t].client
    /\ transactions[t].type = pre.transactions[t].type
    /\ transactions[t].tx = pre.transactions[t].tx
    /\ transactions[t].amount = pre.transactions[t].amount

(* A call that changed the is_disputed of a stored deposit while another   *)
(* record was in the history too.                                          *)
C15_Witness ==
  /\ Accepted
  /\ lastTx.tx \in DOMAIN pre.transactions
  /\ transactions[lastTx.tx].is_disputed # Referenced.is_disputed
  /\ DOMAIN pre.transactions # {lastTx.tx}

(* The account map with the locked flag of client c inverted.              *)
FlipLocked(accs, c) ==
  [accs EXCEPT ![c].locked = ~accs[c].locked]

(* Two outcomes of process_tx that agree on the result, on the history and *)
(* on available, held and total of every account.                          *)
SameButLocked(o1, o2) ==
  /\ o1.result = o2.result
  /\ o1.transactions = o2.transactions
  /\ DOMAIN o1.accounts = DOMAIN o2.accounts
  /\ \A k \in DOMAIN o1.accounts :
       /\ o1.accounts[k].available = o2.accounts[k].available
       /\ o1.accounts[k].held = o2.accounts[k].held
       /\ o1.accounts[k].total = o2.accounts[k].total

(* C16: locked has no influence on processing.  From the ledger reached    *)
(* and from the ledger that differs from it only in the locked flag of one *)
(* account, process_tx gives every record the same result, the same        *)
(* history and the same available, held and total; and a deposit or        *)
(* withdraw with an amount and a fresh tx id, and a dispute of a stored    *)
(* deposit, were accepted when the account was locked.  (A rejected call   *)
(* leaves both maps as they were, so every ledger the program reaches is   *)
(* the ledger after new() or after an accepted call: the comparison is     *)
(* made there.)                                                            *)
C16_LockedHasNoInfluence ==
  /\ (Accepted \/ ~Called) =>
       \A c \in DOMAIN accounts : \A tx \in Transaction :
         SameButLocked(process_tx(accounts, transactions, tx),
                       process_tx(FlipLocked(accounts, c), transactions, tx))
  /\ ( /\ Called
       /\ lastTx.client \in DOMAIN pre.accounts
       /\ pre.accounts[lastTx.client].locked
       /\ \/ /\ lastTx.type \in {"deposit", "withdraw"}
             /\ lastTx.amount # None
             /\ lastTx.tx \notin DOMAIN pre.transactions
          \/ /\ lastTx.type = "dispute"
             /\ lastTx.tx \in DOMAIN pre.transactions
             /\ Referenced.type = "deposit" )
     => Accepted

(* A withdraw accepted on a locked account.                                *)
C16_Witness ==
  /\ lastTx.type = "withdraw"
  /\ Accepted
  /\ lastTx.client \in DOMAIN pre.accounts
  /\ pre.accounts[lastTx.client].locked
  /\ accounts[lastTx.client].available
       = pre.accounts[lastTx.client].available - Unwrap(lastTx.amount)

(* C17: a deposit or withdraw without an amount is rejected with "Amount   *)
(* Required" and the history is as it was; when its tx id was not in the   *)
(* history, it still is not, and every deposit or withdraw with that tx id *)
(* and an amount is accepted by the ledger the call left.                  *)
C17_AmountRequiredBeforeHistory ==
  (lastTx.type \in {"deposit", "withdraw"} /\ lastTx.amount = None)
  =>
    /\ lastResult = "Amount Required"
    /\ transactions = pre.transactions
    /\ lastTx.tx \notin DOMAIN pre.transactions =>
         /\ lastTx.tx \notin DOMAIN transactions
         /\ \A later \in Transaction :
              ( /\ later.type \in {"deposit", "withdraw"}
                /\ later.tx = lastTx.tx
                /\ later.amount # None )
              => process_tx(accounts, transactions, later).result = "Ok"

(* A withdraw without an amount, rejected with a tx id that is not in the  *)
(* history while another tx id is.                                         *)
C17_Witness ==
  /\ lastTx.type = "withdraw"
  /\ lastTx.amount = None
  /\ lastResult = "Amount Required"
  /\ lastTx.tx \notin DOMAIN transactions
  /\ DOMAIN transactions # {}

(* C18: a dispute on a deposit whose is_disputed is already true moves no  *)
(* funds: available and held of every account are the same after it as    *)
(* before it.                                                              *)
C18_RepeatedDisputeMovesNothing ==
  ( /\ cleanInputs
    /\ lastTx.type = "dispute"
    /\ lastTx.tx \in DOMAIN pre.transactions
    /\ Referenced.type = "deposit"
    /\ Referenced.is_disputed )
  =>
    /\ DOMAIN accounts = DOMAIN pre.accounts
    /\ \A c \in DOMAIN pre.accounts :
         /\ accounts[c].available = pre.accounts[c].available
         /\ accounts[c].held = pre.accounts[c].held

(* C19: with deposit and withdraw amounts that are not negative (all the   *)
(* model's amounts are positive), held >= 0 for every account in every     *)
(* state reached.                                                          *)
C19_HeldIsNeverNegative ==
  cleanInputs => \A c \in DOMAIN accounts : accounts[c].held >= 0

(* The sum of the amounts of the history records with tx id in ids that    *)
(* have client c and the given kind: all of them were accepted, a rejected *)
(* record is never stored.                                                 *)
RECURSIVE SumStored(_, _, _)
SumStored(ids, c, kind) ==
  IF ids = {} THEN 0
  ELSE
    LET t == CHOOSE x \in ids : TRUE
        r == transactions[t]
    IN  (IF r.client = c /\ r.type = kind THEN Unwrap(r.amount) ELSE 0)
        + SumStored(ids \ {t}, c, kind)

Deposited(c) ==
  SumStored(DOMAIN transactions, c, "deposit")

Withdrawn(c) ==
  SumStored(DOMAIN transactions, c, "withdraw")

(* C20: for every client c with an account, available + held is the sum   *)
(* of c's accepted deposits minus the sum of c's accepted withdraws minus  *)
(* the amounts the successful chargebacks took from c's account (a client  *)
(* without an account has none of the three); and a dispute or resolve     *)
(* leaves available + held of every account as it was.                    *)
C20_FundsAreConserved ==
  /\ \A c \in Clients :
       IF c \in DOMAIN accounts
       THEN accounts[c].available + accounts[c].held
              = Deposited(c) - Withdrawn(c) - chargedOff[c]
       ELSE Deposited(c) = 0 /\ Withdrawn(c) = 0 /\ chargedOff[c] = 0
  /\ lastTx.type \in {"dispute", "resolve"} =>
       /\ DOMAIN accounts = DOMAIN pre.accounts
       /\ \A c \in DOMAIN accounts :
            accounts[c].available + accounts[c].held
              = pre.accounts[c].available + pre.accounts[c].held

(* A resolve accepted on an account that a chargeback took funds from and  *)
(* that has a deposit.                                                     *)
C20_Witness ==
  /\ lastTx.type = "resolve"
  /\ Accepted
  /\ chargedOff[lastTx.client] > 0
  /\ Deposited(lastTx.client) > 0

(* C21: while every record has arrived with is_disputed = false, every     *)
(* history record whose is_disputed is true is a deposit (no withdraw is   *)
(* ever flagged), and a resolve or chargeback that was accepted referred   *)
(* to a deposit.                                                           *)
C21_OnlyDepositsAreDisputed ==
  cleanInputs =>
    /\ \A t \in DOMAIN transactions :
         transactions[t].is_disputed => transactions[t].type = "deposit"
    /\ (lastTx.type \in {"resolve", "chargeback"} /\ Accepted)
         => Referenced.type = "deposit"

(* After clean inputs only: a chargeback accepted on a disputed deposit    *)
(* while a withdraw is in the history, unflagged.                          *)
C21_Witness ==
  /\ cleanInputs
  /\ lastTx.type = "chargeback"
  /\ Accepted
  /\ Referenced.type = "deposit"
  /\ \E t \in DOMAIN transactions :
       /\ transactions[t].type = "withdraw"
       /\ ~transactions[t].is_disputed

====
